---- MODULE Spec2Model ----
(***************************************************************************)
(* Stage (b) of the 996.MAP pipeline, scripts/2-geocode.py: the Geocoder   *)
(* (coordinate cache with expiry, lookup client, resolution policy) and    *)
(* the batch driver main().                                                *)
(*                                                                         *)
(* Time is counted in whole hours.  The run starts at hour 0, so that a    *)
(* timestamp written before the run is a negative number.  Coordinates     *)
(* are pairs of integers.                                                  *)
(***************************************************************************)
EXTENDS Integers, Sequences, FiniteSets, TLC

\* ------------------------------------------------------------- bounds

\* The longest input list.
MaxRecords == 2

\* How many hours the clock may advance during one run.
MaxTicks == 1

\* ---------------------------------------------------- program constants

\* timedelta.days counts whole days of 24 hours.
HoursPerDay == 24

\* The cache validity of get_cached_coordinates: days_diff <= 90.
CACHE_DAYS == 90

\* GEOCODE_BATCH_SIZE; the default is 50, the environment may set any value.
\* The batch size of the runs, and the largest one of the paced runs.
GEOCODE_BATCH_SIZE == 2

\* time.sleep(2) and time.sleep(0.5), in tenths of a second.
LONG_PAUSE == 20
SHORT_PAUSE == 5

\* ------------------------------------------------------------- values

\* A JSON value in the place of coordinates: null, a list of numbers, or
\* (inside a cache entry) no "coords" key at all.
Null == [type |-> "null", elems |-> <<>>]
NumList(s) == [type |-> "list", elems |-> s]
NoCoords == [type |-> "missing", elems |-> <<>>]

\* A "timestamp" field: an ISO-8601 string of a naive datetime (its hour),
\* a string datetime.fromisoformat rejects, or no/empty field.
Iso(t) == [type |-> "iso", at |-> t]
Garbled == [type |-> "garbled", at |-> 0]
NoTimestamp == [type |-> "missing", at |-> 0]

\* A cache entry is a JSON object with the keys coords, timestamp, source.
Entry(c, ts, src) == [coords |-> c, timestamp |-> ts, source |-> src]

\* The empty JSON object {}.
EmptyDict == Entry(NoCoords, NoTimestamp, "")

\* Python's truth value of a dict, and of a timestamp string.
Truthy(d) == d # EmptyDict
TruthyTimestamp(ts) == ts.type # "missing"

\* The in-memory cache: what json.load returned.  A JSON object is a mapping
\* from keys to entries; any other JSON value has no .get.
Dict(f) == [type |-> "dict", entries |-> f]
NotADict == [type |-> "other", entries |-> <<>>]
EmptyCache == Dict(<<>>)

\* The cache file GEOCACHE_FILE.
FileMissing == [kind |-> "missing", value |-> EmptyCache]
FileGarbled == [kind |-> "garbled", value |-> EmptyCache]
FileJson(v) == [kind |-> "json", value |-> v]

\* The result of geocode_address: None, or (coordinates, "exact").
None == [ok |-> FALSE, coordinates |-> <<>>, source |-> ""]
Found(c, src) == [ok |-> TRUE, coordinates |-> c, source |-> src]

\* No geo_result yet.
NoResult == [coordinates |-> Null, geocode_source |-> "", geocode_timestamp |-> Iso(0)]

\* ------------------------------------------------------ Geocoder (pure)

\* get_cache_key with the company name before the city.
get_cache_key_name_first(company_name, city) == company_name \o "@" \o city

\* get_cache_key: f"{city}@{company_name}".
get_cache_key(company_name, city) == city \o "@" \o company_name

\* days_diff with the subtraction the other way round.
days_diff_reversed(t, cache_date) == (cache_date - t) \div HoursPerDay

\* (datetime.now() - cache_date).days: whole days, rounded down.
days_diff(t, cache_date) == (t - cache_date) \div HoursPerDay

\* The test of get_cached_coordinates on a parsed timestamp.
within_validity(t, cache_date) == days_diff(t, cache_date) <= CACHE_DAYS

\* self.cache.get(cache_key) on a dict: the entry, or None (here the falsy {}).
cache_get(c, cache_key) ==
  IF cache_key \in DOMAIN c.entries THEN c.entries[cache_key] ELSE EmptyDict

\* get_cached_coordinates that counts before it tests the timestamp.
get_cached_coordinates_count_first(c, hits, company_name, city, t) ==
  LET cache_key == get_cache_key(company_name, city)
      cached_data == cache_get(c, cache_key)
      timestamp == cached_data.timestamp
      counted == IF Truthy(cached_data) THEN hits + 1 ELSE hits
  IN IF /\ Truthy(cached_data)
        /\ TruthyTimestamp(timestamp)
        /\ timestamp.type = "iso"
        /\ within_validity(t, timestamp.at)
     THEN [found |-> TRUE, data |-> cached_data, cache_hit_count |-> counted]
     ELSE [found |-> FALSE, data |-> EmptyDict, cache_hit_count |-> counted]

\* get_cached_coordinates on a dict cache c at time t: whether an entry is
\* returned, the entry, and cache_hit_count after the call.
get_cached_coordinates(c, hits, company_name, city, t) ==
  LET cache_key == get_cache_key(company_name, city)
      cached_data == cache_get(c, cache_key)
      timestamp == cached_data.timestamp
  IN IF /\ Truthy(cached_data)
        /\ TruthyTimestamp(timestamp)
        /\ timestamp.type = "iso"
        /\ within_validity(t, timestamp.at)
     THEN [found |-> TRUE, data |-> cached_data, cache_hit_count |-> hits + 1]
     ELSE [found |-> FALSE, data |-> EmptyDict, cache_hit_count |-> hits]

\* new_entry with latitude and longitude stored in the other order.
new_entry_swapped(coordinates, source, t) ==
  Entry(NumList(<<coordinates[2], coordinates[1]>>), Iso(t), source)

\* The entry cache_coordinates builds.
new_entry(coordinates, source, t) == Entry(NumList(coordinates), Iso(t), source)

\* cache_coordinates that builds its key from the company name alone.
cache_coordinates_name_key(c, company_name, city, coordinates, source, t) ==
  Dict([k \in DOMAIN c.entries \cup {company_name} |->
          IF k = company_name THEN new_entry(coordinates, source, t)
          ELSE c.entries[k]])

\* cache_coordinates: self.cache[cache_key] = {coords, timestamp, source}.
cache_coordinates(c, company_name, city, coordinates, source, t) ==
  LET cache_key == get_cache_key(company_name, city)
  IN Dict([k \in DOMAIN c.entries \cup {cache_key} |->
             IF k = cache_key THEN new_entry(coordinates, source, t)
             ELSE c.entries[k]])

\* gcj02_to_wgs84: the source returns its arguments.
gcj02_to_wgs84(lng, lat) == <<lng, lat>>

\* A provider response: how the request ended and, for a parsed body, its
\* status, whether geocodes is non-empty and geocodes[0].location split at
\* the commas.
Response(http, status, geocodes, location) ==
  [http |-> http, status |-> status, geocodes |-> geocodes, location |-> location]

\* geocode_address on the response the request got.
geocode_address(key, response) ==
  IF key = "" THEN None
  ELSE IF response.http # "ok" THEN None
  ELSE IF response.status = "1" /\ response.geocodes /\ response.location # <<>>
       THEN IF Len(response.location) = 2
            THEN Found(gcj02_to_wgs84(response.location[1], response.location[2]),
                       "exact")
            ELSE None
       ELSE None

\* One call of geocode_address, as the model records it: the record it was
\* made for (counted from 1), the address sent and what the call returned.
request(record, address, result) ==
  [record |-> record, address |-> address, result |-> result]

\* The three outcomes geocode_company returns.
cached_outcome(cached) ==
  [coordinates |-> cached.coords,
   geocode_source |-> "cache",
   geocode_timestamp |-> cached.timestamp]

success_outcome(coordinates, source, t) ==
  [coordinates |-> NumList(coordinates),
   geocode_source |-> source,
   geocode_timestamp |-> Iso(t)]

\* failed_outcome with a placeholder position instead of None.
failed_outcome_origin(t) ==
  [coordinates |-> NumList(<<0, 0>>),
   geocode_source |-> "failed",
   geocode_timestamp |-> Iso(t)]

failed_outcome(t) ==
  [coordinates |-> Null, geocode_source |-> "failed", geocode_timestamp |-> Iso(t)]

\* The line geocode_company appends to GEOCODE_ERRORS_LOG.
error_line(t, company_name, city) ==
  [timestamp |-> Iso(t), company_name |-> company_name, city |-> city]

\* The address of the exact attempt: f"{city}{company_name}".
exact_address(company_name, city) == city \o company_name

\* ------------------------------------------------------- main (pure)

\* load_companies: the list in INPUT_FILE, [] when it cannot be read.
load_companies(file) == IF file.readable THEN file.records ELSE <<>>

\* load_cache: the JSON value of the cache file, {} when the file is missing
\* or json.load raises.
load_cache(file) == IF file.kind = "json" THEN file.value ELSE EmptyCache

\* merge_result with the record itself lost: only the outcome is kept.
merge_result_outcome_only(company, result) == result

\* company.copy() followed by update(geo_result).
merge_result(company, result) == result @@ company

\* The batch test on the index counted from 0 itself.
batch_boundary_zero_based(i0, size) == i0 % size = 0

\* The batch test of main: (i + 1) % GEOCODE_BATCH_SIZE == 0, i counted from 0.
batch_boundary(i0, size) == (i0 + 1) % size = 0

\* ---------------------------------------------------------- stage (c)

\* create_geojson_feature returns None for a record it does not keep.
NoFeature == [type |-> "None"]

\* create_geojson_feature that does not look at the coordinates.
create_geojson_feature_unchecked(record) ==
  [type |-> "Feature",
   geometry |-> [type |-> "Point", coordinates |-> record.coordinates],
   properties |-> [city |-> record.city, name |-> record.company_name]]

\* create_geojson_feature: None if `not coordinates or len(coordinates) != 2`,
\* else a Point feature with the coordinates as they are. Of the properties
\* the city and the name are kept; the others come from fields the records
\* here do not carry.
create_geojson_feature(record) ==
  LET coordinates == record.coordinates
  IN IF \/ ~(coordinates.type = "list" /\ coordinates.elems # <<>>)
        \/ Len(coordinates.elems) # 2
     THEN NoFeature
     ELSE [type |-> "Feature",
           geometry |-> [type |-> "Point", coordinates |-> coordinates],
           properties |-> [city |-> record.city, name |-> record.company_name]]

\* The loop of create_geojson_collection: the features of the records that
\* have one, in the order of the records.
RECURSIVE features_of(_)
features_of(records) ==
  IF records = <<>>
  THEN <<>>
  ELSE LET feature == create_geojson_feature(Head(records))
       IN (IF feature # NoFeature THEN <<feature>> ELSE <<>>)
            \o features_of(Tail(records))

create_geojson_collection(records) ==
  [type |-> "FeatureCollection", features |-> features_of(records)]

\* validate_geojson: a FeatureCollection with at least one feature, each a
\* Feature with a Point geometry of two coordinates.
validate_geojson(geojson_data) ==
  /\ geojson_data.type = "FeatureCollection"
  /\ Len(geojson_data.features) # 0
  /\ \A k \in 1..Len(geojson_data.features) :
       LET feature == geojson_data.features[k]
       IN /\ feature.type = "Feature"
          /\ feature.geometry.type = "Point"
          /\ feature.geometry.coordinates.type = "list"
          /\ Len(feature.geometry.coordinates.elems) = 2

\* load_companies_with_coords: the list in the file, [] if it cannot be read.
load_companies_with_coords(file) == IF file.written THEN file.records ELSE <<>>

\* ------------------------------------------------------------- inputs

\* The records stage (a) hands over.
Companies ==
  {[company_name |-> "Acme", city |-> "SH"],
   [company_name |-> "Beta", city |-> "BJ"]}

\* Ages, in hours, of the timestamps a cache file holds when the run starts.
Ages ==
  {89 * HoursPerDay, 90 * HoursPerDay + 1, 91 * HoursPerDay - 1, 91 * HoursPerDay}

\* The entries a cache file holds: written by an earlier run, or edited by hand.
FileEntries ==
  {Entry(c, ts, "exact") :
     c \in {NumList(<<120, 30>>), NoCoords},
     ts \in {Iso(0 - a) : a \in Ages} \cup {Garbled, NoTimestamp}}
  \cup {EmptyDict}

\* The cache files: absent, not JSON, a JSON value that is no object, an empty
\* object, or an object with one entry.
CacheFiles ==
  {FileMissing, FileGarbled, FileJson(NotADict), FileJson(EmptyCache)}
  \cup {FileJson(Dict(get_cache_key("Acme", "SH") :> e)) : e \in FileEntries}

\* Sequences over S of length at most n.
SeqUpTo(S, n) == UNION {[1..k -> S] : k \in 0..n}

\* INPUT_FILE: unreadable, or a list of records.
InputFiles ==
  {[readable |-> FALSE, records |-> <<>>]}
  \cup {[readable |-> TRUE, records |-> s] : s \in SeqUpTo(Companies, MaxRecords)}

\* Coordinates the provider answers with.
Locations == {<<121, 31>>, <<116, 39>>}

\* What a request can get: a transport error, a timeout or an HTTP error
\* status (RequestException), a body that is no JSON object, a status other
\* than "1", no geocodes, an empty location, a location that does not split
\* into two numbers, or a location.
Responses ==
  {Response("error", "", FALSE, <<>>),
   Response("badbody", "", FALSE, <<>>),
   Response("ok", "0", FALSE, <<>>),
   Response("ok", "1", FALSE, <<>>),
   Response("ok", "1", TRUE, <<>>),
   Response("ok", "1", TRUE, <<121>>)}
  \cup {Response("ok", "1", TRUE, l) : l \in Locations}

\* -------------------------------------------------------------- state

VARIABLES
  pc,                     \* where main is
  api_key,                \* GAODE_API_KEY
  batch_size,             \* GEOCODE_BATCH_SIZE, as read from the environment
  input_file,             \* INPUT_FILE
  cache_file,             \* GEOCACHE_FILE
  errors_log,             \* GEOCODE_ERRORS_LOG, a sequence of lines
  output_file,            \* OUTPUT_FILE
  companies,              \* main's companies
  i,                      \* the loop index of main, counted from 0
  cache,                  \* geocoder.cache
  error_count,            \* geocoder.error_count
  success_count,          \* geocoder.success_count
  cache_hit_count,        \* geocoder.cache_hit_count
  geo_result,             \* main's geo_result
  companies_with_coords,  \* main's companies_with_coords
  requests,               \* the requests sent to the provider, in order
  sleeps,                 \* the time.sleep calls made, in order
  saves,                  \* how many times save_cache was called
  cache_file_at_start,    \* GEOCACHE_FILE as it was before main ran
  geojson_status,         \* stage (c): idle, or the status its main returned
  geojson_collection,     \* stage (c): main's geojson_collection
  geojson_file,           \* stage (c): its OUTPUT_FILE
  now                     \* datetime.now()

config == <<api_key, batch_size>>
stage_c == <<geojson_status, geojson_collection, geojson_file>>
files == <<config, stage_c, input_file, cache_file, errors_log, output_file>>
counters == <<error_count, success_count, cache_hit_count>>
saved == <<saves, cache_file_at_start>>
history == <<requests, sleeps, saved>>
vars ==
  <<pc, files, companies, i, cache, counters, geo_result,
    companies_with_coords, history, now>>

NoOutput == [written |-> FALSE, records |-> <<>>]
NoCollection == [type |-> "None", features |-> <<>>]
NoGeoJson == [written |-> FALSE, data |-> NoCollection]

\* The state before main runs, for the given inputs.
InitWith(keys, batches, inputs, caches, logs) ==
  /\ pc = "main"
  /\ api_key \in keys
  /\ batch_size \in batches
  /\ input_file \in inputs
  /\ cache_file \in caches
  /\ errors_log \in logs
  /\ output_file = NoOutput
  /\ companies = <<>>
  /\ i = 0
  /\ cache = EmptyCache
  /\ error_count = 0
  /\ success_count = 0
  /\ cache_hit_count = 0
  /\ geo_result = NoResult
  /\ companies_with_coords = <<>>
  /\ requests = <<>>
  /\ sleeps = <<>>
  /\ saves = 0
  /\ cache_file_at_start = cache_file
  /\ geojson_status = "idle"
  /\ geojson_collection = NoCollection
  /\ geojson_file = NoGeoJson
  /\ now = 0

Init ==
  InitWith({"", "key"}, {GEOCODE_BATCH_SIZE}, InputFiles, CacheFiles,
           {<<>>, <<error_line(0 - HoursPerDay, "Old", "GZ")>>})

\* ------------------------------------------------------------ actions

\* The record main is processing: companies[i].
company == companies[i + 1]

\* MainStart that constructs the Geocoder before it looks at the input.
MainStart_construct_first ==
  /\ pc = "main"
  /\ IF api_key = ""
     THEN /\ pc' = "exit1"
          /\ UNCHANGED <<errors_log, companies, cache, counters>>
     ELSE /\ errors_log' = <<>>
          /\ companies' = load_companies(input_file)
          /\ cache' = load_cache(cache_file)
          /\ error_count' = 0
          /\ success_count' = 0
          /\ cache_hit_count' = 0
          /\ pc' = IF companies' = <<>> THEN "exit1" ELSE "cache_check"
  /\ UNCHANGED <<config, stage_c, input_file, cache_file, output_file, i, geo_result,
                 companies_with_coords, history, now>>

\* MainStart that removes the error log before it checks the credential.
MainStart_clear_first ==
  /\ pc = "main"
  /\ errors_log' = <<>>
  /\ IF api_key = ""
     THEN /\ pc' = "exit1"
          /\ UNCHANGED <<companies, cache, counters>>
     ELSE /\ companies' = load_companies(input_file)
          /\ IF companies' = <<>>
             THEN /\ pc' = "exit1"
                  /\ UNCHANGED <<cache, counters>>
             ELSE /\ pc' = "cache_check"
                  /\ cache' = load_cache(cache_file)
                  /\ error_count' = 0
                  /\ success_count' = 0
                  /\ cache_hit_count' = 0
  /\ UNCHANGED <<config, stage_c, input_file, cache_file, output_file, i, geo_result,
                 companies_with_coords, history, now>>

\* main up to the loop: the credential check, the error log removed, the
\* input loaded, the Geocoder constructed.
MainStart ==
  /\ pc = "main"
  /\ IF api_key = ""
     THEN /\ pc' = "exit1"
          /\ UNCHANGED <<errors_log, companies, cache, counters>>
     ELSE /\ errors_log' = <<>>
          /\ companies' = load_companies(input_file)
          /\ IF companies' = <<>>
             THEN /\ pc' = "exit1"
                  /\ UNCHANGED <<cache, counters>>
             ELSE /\ pc' = "cache_check"
                  /\ cache' = load_cache(cache_file)
                  /\ error_count' = 0
                  /\ success_count' = 0
                  /\ cache_hit_count' = 0
  /\ UNCHANGED <<config, stage_c, input_file, cache_file, output_file, i, geo_result,
                 companies_with_coords, history, now>>

\* CacheCheck that removes an entry it finds expired.
CacheCheck_evict ==
  /\ pc = "cache_check"
  /\ cache.type = "dict"
  /\ LET cached == get_cached_coordinates(cache, cache_hit_count,
                     company.company_name, company.city, now)
         cache_key == get_cache_key(company.company_name, company.city)
     IN /\ cache_hit_count' = cached.cache_hit_count
        /\ IF cached.found /\ cached.data.coords # NoCoords
           THEN /\ pc' = "merge"
                /\ geo_result' = cached_outcome(cached.data)
                /\ UNCHANGED cache
           ELSE /\ pc' = "exact"
                /\ cache' = Dict([k \in DOMAIN cache.entries \ {cache_key} |->
                                    cache.entries[k]])
                /\ UNCHANGED geo_result
  /\ UNCHANGED <<files, companies, i, error_count, success_count,
                 companies_with_coords, history, now>>

\* CacheCheck with the exact request sent before the cache is looked at.
CacheCheck_request_first ==
  /\ pc = "cache_check"
  /\ cache.type = "dict"
  /\ \E response \in Responses :
       LET cached == get_cached_coordinates(cache, cache_hit_count,
                       company.company_name, company.city, now)
           result == geocode_address(api_key, response)
       IN /\ requests' = Append(requests,
               request(i + 1, exact_address(company.company_name, company.city),
                       result))
          /\ cache_hit_count' = cached.cache_hit_count
          /\ IF cached.found /\ cached.data.coords # NoCoords
             THEN /\ pc' = "merge"
                  /\ geo_result' = cached_outcome(cached.data)
             ELSE /\ pc' = "city_fallback"
                  /\ UNCHANGED geo_result
  /\ UNCHANGED <<files, companies, i, cache, error_count, success_count,
                 companies_with_coords, sleeps, saved, now>>

\* geocode_company, the cache check: a hit returns the cached outcome; a
\* cache that is no dict, or a hit on an entry without "coords", raises.
CacheCheck ==
  /\ pc = "cache_check"
  /\ IF cache.type # "dict"
     THEN /\ pc' = "crashed"
          /\ UNCHANGED <<cache_hit_count, geo_result>>
     ELSE LET cached == get_cached_coordinates(cache, cache_hit_count,
                          company.company_name, company.city, now)
          IN /\ cache_hit_count' = cached.cache_hit_count
             /\ IF ~cached.found
                THEN /\ pc' = "exact"
                     /\ UNCHANGED geo_result
                ELSE IF cached.data.coords = NoCoords
                THEN /\ pc' = "crashed"
                     /\ UNCHANGED geo_result
                ELSE /\ pc' = "merge"
                     /\ geo_result' = cached_outcome(cached.data)
  /\ UNCHANGED <<files, companies, i, cache, error_count, success_count,
                 companies_with_coords, history, now>>

\* ExactAttempt that does not count its success.
ExactAttempt_uncounted ==
  /\ pc = "exact"
  /\ \E response \in Responses :
       LET address == exact_address(company.company_name, company.city)
           result == geocode_address(api_key, response)
       IN /\ requests' = Append(requests, request(i + 1, address, result))
          /\ IF result.ok
             THEN /\ cache' = cache_coordinates(cache, company.company_name,
                                company.city, result.coordinates, result.source, now)
                  /\ geo_result' =
                       success_outcome(result.coordinates, result.source, now)
                  /\ pc' = "merge"
             ELSE /\ pc' = "city_fallback"
                  /\ UNCHANGED <<cache, geo_result>>
  /\ UNCHANGED <<files, companies, i, counters,
                 companies_with_coords, sleeps, saved, now>>

\* geocode_company, the exact attempt: one request for city + company name.
ExactAttempt ==
  /\ pc = "exact"
  /\ \E response \in Responses :
       LET address == exact_address(company.company_name, company.city)
           result == geocode_address(api_key, response)
       IN /\ requests' = Append(requests, request(i + 1, address, result))
          /\ IF result.ok
             THEN /\ cache' = cache_coordinates(cache, company.company_name,
                                company.city, result.coordinates, result.source, now)
                  /\ success_count' = success_count + 1
                  /\ geo_result' =
                       success_outcome(result.coordinates, result.source, now)
                  /\ pc' = "merge"
             ELSE /\ pc' = "city_fallback"
                  /\ UNCHANGED <<cache, success_count, geo_result>>
  /\ UNCHANGED <<files, companies, i, error_count, cache_hit_count,
                 companies_with_coords, sleeps, saved, now>>

\* CityFallback that passes on the source tag geocode_address returned.
CityFallback_client_source ==
  /\ pc = "city_fallback"
  /\ \E response \in Responses :
       LET city_result == geocode_address(api_key, response)
       IN /\ requests' = Append(requests, request(i + 1, company.city, city_result))
          /\ IF city_result.ok
             THEN /\ cache' = cache_coordinates(cache, company.company_name,
                                company.city, city_result.coordinates,
                                city_result.source, now)
                  /\ success_count' = success_count + 1
                  /\ geo_result' =
                       success_outcome(city_result.coordinates, "city_fallback", now)
                  /\ pc' = "merge"
             ELSE /\ pc' = "failed"
                  /\ UNCHANGED <<cache, success_count, geo_result>>
  /\ UNCHANGED <<files, companies, i, error_count, cache_hit_count,
                 companies_with_coords, sleeps, saved, now>>

\* geocode_company, the fallback: one request for the city alone.
CityFallback ==
  /\ pc = "city_fallback"
  /\ \E response \in Responses :
       LET city_result == geocode_address(api_key, response)
       IN /\ requests' = Append(requests, request(i + 1, company.city, city_result))
          /\ IF city_result.ok
             THEN /\ cache' = cache_coordinates(cache, company.company_name,
                                company.city, city_result.coordinates,
                                "city_fallback", now)
                  /\ success_count' = success_count + 1
                  /\ geo_result' =
                       success_outcome(city_result.coordinates, "city_fallback", now)
                  /\ pc' = "merge"
             ELSE /\ pc' = "failed"
                  /\ UNCHANGED <<cache, success_count, geo_result>>
  /\ UNCHANGED <<files, companies, i, error_count, cache_hit_count,
                 companies_with_coords, sleeps, saved, now>>

\* Failed with the error log opened for writing, not for appending.
Failed_overwrite ==
  /\ pc = "failed"
  /\ error_count' = error_count + 1
  /\ errors_log' = <<error_line(now, company.company_name, company.city)>>
  /\ geo_result' = failed_outcome(now)
  /\ pc' = "merge"
  /\ UNCHANGED <<config, stage_c, input_file, cache_file, output_file, companies, i, cache,
                 success_count, cache_hit_count, companies_with_coords, history, now>>

\* geocode_company, the failure: counted, logged, returned with no coordinates.
Failed ==
  /\ pc = "failed"
  /\ error_count' = error_count + 1
  /\ errors_log' =
       Append(errors_log, error_line(now, company.company_name, company.city))
  /\ geo_result' = failed_outcome(now)
  /\ pc' = "merge"
  /\ UNCHANGED <<config, stage_c, input_file, cache_file, output_file, companies, i, cache,
                 success_count, cache_hit_count, companies_with_coords, history, now>>

\* main, after geocode_company returned: the record merged and appended.
Merge ==
  /\ pc = "merge"
  /\ companies_with_coords' =
       Append(companies_with_coords, merge_result(company, geo_result))
  /\ pc' = IF batch_boundary(i, batch_size) THEN "long_pause" ELSE "short_pause"
  /\ UNCHANGED <<files, companies, i, cache, counters, geo_result, history, now>>

\* LongPause that also saves the cache, once per batch.
LongPause_save ==
  /\ pc = "long_pause"
  /\ sleeps' = Append(sleeps, [after |-> i + 1, tenths |-> LONG_PAUSE])
  /\ cache_file' = FileJson(cache)
  /\ saves' = saves + 1
  /\ pc' = "short_pause"
  /\ UNCHANGED <<config, stage_c, input_file, errors_log, output_file, companies, i, cache,
                 counters, geo_result, companies_with_coords, requests,
                 cache_file_at_start, now>>

\* main: time.sleep(2) at a batch boundary.
LongPause ==
  /\ pc = "long_pause"
  /\ sleeps' = Append(sleeps, [after |-> i + 1, tenths |-> LONG_PAUSE])
  /\ pc' = "short_pause"
  /\ UNCHANGED <<files, companies, i, cache, counters, geo_result,
                 companies_with_coords, requests, saved, now>>

\* main: time.sleep(0.5) after every record, then the next record or the end
\* of the loop.
ShortPause ==
  /\ pc = "short_pause"
  /\ sleeps' = Append(sleeps, [after |-> i + 1, tenths |-> SHORT_PAUSE])
  /\ i' = i + 1
  /\ pc' = IF i + 1 < Len(companies) THEN "cache_check" ELSE "save_cache"
  /\ UNCHANGED <<files, companies, cache, counters, geo_result,
                 companies_with_coords, requests, saved, now>>

\* save_cache: open(cache_file, 'w') leaves an empty file.
SaveCacheOpen ==
  /\ pc = "save_cache"
  /\ cache_file' = FileGarbled
  /\ saves' = saves + 1
  /\ pc' = "save_cache_dump"
  /\ UNCHANGED <<config, stage_c, input_file, errors_log, output_file, companies, i, cache,
                 counters, geo_result, companies_with_coords, requests, sleeps,
                 cache_file_at_start, now>>

\* save_cache: json.dump writes the whole mapping.
SaveCacheDump ==
  /\ pc = "save_cache_dump"
  /\ cache_file' = FileJson(cache)
  /\ pc' = "save_output"
  /\ UNCHANGED <<config, stage_c, input_file, errors_log, output_file, companies, i, cache,
                 counters, geo_result, companies_with_coords, history, now>>

\* save_companies_with_coords, and main returns 0.
SaveOutput ==
  /\ pc = "save_output"
  /\ output_file' = [written |-> TRUE, records |-> companies_with_coords]
  /\ pc' = "exit0"
  /\ UNCHANGED <<config, stage_c, input_file, cache_file, errors_log, companies, i, cache,
                 counters, geo_result, companies_with_coords, history, now>>

\* An hour passes while main runs.
Tick ==
  /\ pc \notin {"main", "exit0", "exit1", "crashed", "killed"}
  /\ now < MaxTicks
  /\ now' = now + 1
  /\ UNCHANGED <<pc, files, companies, i, cache, counters, geo_result,
                 companies_with_coords, history>>

Next ==
  \/ MainStart
  \/ CacheCheck
  \/ ExactAttempt
  \/ CityFallback
  \/ Failed
  \/ Merge
  \/ LongPause
  \/ ShortPause
  \/ SaveCacheOpen
  \/ SaveCacheDump
  \/ SaveOutput
  \/ Tick

Spec == Init /\ [][Next]_vars

\* ------------------------------------------------- the expiry of entries

\* Ages, in hours, around the end of the validity: every hour from 88 to 92
\* days, and an entry written in the hour the run starts.
ExpiryAges == {0} \cup ((88 * HoursPerDay)..(92 * HoursPerDay))

\* Runs over one identity whose key the cache file holds, at every age.
InitExpiry ==
  InitWith({"key"}, {GEOCODE_BATCH_SIZE},
           {[readable |-> TRUE, records |-> s] :
              s \in SeqUpTo({[company_name |-> "Acme", city |-> "SH"]}, MaxRecords)
                    \ {<<>>}},
           {FileJson(Dict(get_cache_key("Acme", "SH") :>
                            Entry(NumList(<<120, 30>>), Iso(0 - a), "exact"))) :
              a \in ExpiryAges},
           {<<>>})

SpecExpiry == InitExpiry /\ [][Next]_vars

\* ------------------------------------------------- identities that collide

\* Two identities whose keys are the same string: "a@b" + "@" + "c" and
\* "a" + "@" + "b@c".
Collisions ==
  {[company_name |-> "c", city |-> "a@b"],
   [company_name |-> "b@c", city |-> "a"]}

\* Runs over the colliding identities, with no cache file, an empty one, or
\* one that holds an entry under the shared key.
InitCollision ==
  InitWith({"key"}, {GEOCODE_BATCH_SIZE},
           {[readable |-> TRUE, records |-> s] :
              s \in SeqUpTo(Collisions, MaxRecords) \ {<<>>}},
           {FileMissing, FileJson(EmptyCache)}
             \cup {FileJson(Dict(get_cache_key("c", "a@b") :>
                                   Entry(NumList(<<120, 30>>), Iso(0 - a), "exact"))) :
                     a \in Ages},
           {<<>>})

SpecCollision == InitCollision /\ [][Next]_vars

\* ------------------------------------------------------- the pacing

\* Runs of up to two batches and more, at every batch size from 1: lists
\* shorter than a batch, of one batch, between one and two, of two.
PacedRecords == MaxRecords + GEOCODE_BATCH_SIZE

InitPacing ==
  InitWith({"key"}, 1..GEOCODE_BATCH_SIZE,
           {[readable |-> TRUE, records |-> s] :
              s \in SeqUpTo({[company_name |-> "Acme", city |-> "SH"]}, PacedRecords)
                    \ {<<>>}},
           {FileMissing},
           {<<>>})

SpecPacing == InitPacing /\ [][Next]_vars

\* ------------------------------------------------- a run that is stopped

\* The process is terminated from outside, at any point of the run.
Kill ==
  /\ pc \notin {"main", "exit0", "exit1", "crashed", "killed"}
  /\ pc' = "killed"
  /\ UNCHANGED <<files, companies, i, cache, counters, geo_result,
                 companies_with_coords, history, now>>

NextKill ==
  \/ Next
  \/ Kill

SpecKill == Init /\ [][NextKill]_vars

\* ------------------------------------------------- a run that goes on

\* main is one sequential thread, and each of its steps ends: a request
\* times out after 10 seconds, a sleep is finite. So a run that can take a
\* step takes one.
SpecFair == Spec /\ WF_vars(Next)

\* ------------------------------------------------- a record with no name

\* Stage (a) pads a table row to five cells with empty strings, so a record
\* can carry the empty company name.
Unnamed ==
  {[company_name |-> "", city |-> "SH"],
   [company_name |-> "Acme", city |-> "SH"]}

InitUnnamed ==
  InitWith({"key"}, {GEOCODE_BATCH_SIZE},
           {[readable |-> TRUE, records |-> s] :
              s \in SeqUpTo(Unnamed, MaxRecords) \ {<<>>}},
           {FileMissing, FileJson(EmptyCache)},
           {<<>>})

SpecUnnamed == InitUnnamed /\ [][Next]_vars

\* ------------------------------------------------- entries of any shape

\* What "coords" can hold in a cache file that the program did not write
\* itself: a pair, null, a list of one number, a list of three.
CoordShapes ==
  {NumList(<<120, 30>>), Null, NumList(<<120>>), NumList(<<120, 30, 5>>)}

\* Runs whose cache file holds an entry with such coords, at every age.
ShapedCacheFiles ==
  {FileJson(Dict(get_cache_key("Acme", "SH") :> Entry(c, Iso(0 - a), "exact"))) :
     c \in CoordShapes, a \in Ages}

InitShapes ==
  InitWith({"key"}, {GEOCODE_BATCH_SIZE},
           {[readable |-> TRUE, records |-> s] :
              s \in SeqUpTo(Companies, MaxRecords) \ {<<>>}},
           {FileMissing} \cup ShapedCacheFiles,
           {<<>>})

SpecShapes == InitShapes /\ [][Next]_vars

\* ------------------------------------------------- stage (c) after (b)

\* main of stage (c), run once stage (b) has ended: the records loaded, the
\* collection made and validated, the GeoJSON file written.
GeoJsonMain ==
  /\ pc \in {"exit0", "exit1", "crashed"}
  /\ geojson_status = "idle"
  /\ LET records == load_companies_with_coords(output_file)
     IN IF records = <<>>
        THEN /\ geojson_status' = "exit1"
             /\ UNCHANGED <<geojson_collection, geojson_file>>
        ELSE /\ geojson_collection' = create_geojson_collection(records)
             /\ IF validate_geojson(geojson_collection')
                THEN /\ geojson_file' =
                          [written |-> TRUE, data |-> geojson_collection']
                     /\ geojson_status' = "exit0"
                ELSE /\ geojson_status' = "exit1"
                     /\ UNCHANGED geojson_file
  /\ UNCHANGED <<pc, config, input_file, cache_file, errors_log, output_file,
                 companies, i, cache, counters, geo_result,
                 companies_with_coords, history, now>>

NextPipeline ==
  \/ Next
  \/ GeoJsonMain

\* Runs of stage (b) over every input and every cache file, the ones with
\* entries of any shape included, followed by stage (c).
InitPipeline ==
  InitWith({"", "key"}, {GEOCODE_BATCH_SIZE}, InputFiles,
           CacheFiles \cup ShapedCacheFiles, {<<>>})

SpecPipeline == InitPipeline /\ [][NextPipeline]_vars

\* ------------------------------------------------------------- claims

\* The fields geocode_company adds to a record.
OutcomeFields == {"coordinates", "geocode_source", "geocode_timestamp"}

\* The requests made for record k (counted from 1), in order.
RequestsFor(k) == SelectSeq(requests, LAMBDA r : r.record = k)

\* The key of the record being processed, and whether the cache holds it.
company_key == get_cache_key(company.company_name, company.city)
HasEntry == cache.type = "dict" /\ company_key \in DOMAIN cache.entries

\* A step of main other than the passing of time.
Step(from) == pc = from /\ pc' \notin {from, "killed"}

\* C1: a completed run over n >= 1 records has written exactly n enriched
\* records; the k-th is the k-th input record with the three outcome fields
\* added and nothing else, and its geocode_source is one of cache, exact,
\* city_fallback, failed.
C1_OneOutcomePerRecord ==
  pc = "exit0" =>
    /\ Len(input_file.records) >= 1
    /\ output_file.written
    /\ output_file.records = companies_with_coords
    /\ Len(output_file.records) = Len(input_file.records)
    /\ \A k \in 1..Len(input_file.records) :
         LET in == input_file.records[k]
             out == output_file.records[k]
         IN /\ DOMAIN out = DOMAIN in \cup OutcomeFields
            /\ DOMAIN in \cap OutcomeFields = {}
            /\ \A f \in DOMAIN in : out[f] = in[f]
            /\ out.geocode_source \in {"cache", "exact", "city_fallback", "failed"}

\* C1 witness: a completed run of two records, the first resolved from the
\* cache and the second by the city fallback.
C1_Witness ==
  /\ pc = "exit0"
  /\ Len(output_file.records) = 2
  /\ output_file.records[1].geocode_source = "cache"
  /\ output_file.records[2].geocode_source = "city_fallback"

\* The cache holds, under the key of the record being processed, an entry
\* with coordinates whose timestamp is at most 90 days of 24 hours old.
FreshEntry ==
  /\ HasEntry
  /\ cache.entries[company_key].coords.type = "list"
  /\ cache.entries[company_key].timestamp.type = "iso"
  /\ now - cache.entries[company_key].timestamp.at <= CACHE_DAYS * HoursPerDay

\* C2: the cache is consulted before any lookup.  A record whose key has a
\* fresh entry when geocode_company starts is resolved by the cache check
\* alone: the outcome carries the entry's coords and timestamp with source
\* cache, the cache mapping is unchanged, no request is sent in that step, and
\* no request was ever sent for a record whose outcome has source cache.
C2_CacheBeforeLookup ==
  /\ [][Step("cache_check") /\ FreshEntry =>
          /\ pc' = "merge"
          /\ geo_result' =
               [coordinates |-> cache.entries[company_key].coords,
                geocode_source |-> "cache",
                geocode_timestamp |-> cache.entries[company_key].timestamp]
          /\ cache' = cache
          /\ requests' = requests]_vars
  /\ [](\A k \in 1..Len(companies_with_coords) :
          companies_with_coords[k].geocode_source = "cache" =>
            RequestsFor(k) = <<>>)
  /\ [](pc = "merge" /\ geo_result.geocode_source = "cache" =>
          RequestsFor(i + 1) = <<>>)

\* C2 witness: the second record was resolved from the cache after the first
\* one needed a request.
C2_Witness ==
  /\ pc = "merge"
  /\ i = 1
  /\ geo_result.geocode_source = "cache"
  /\ requests # <<>>
  /\ cache_file.kind = "json"
  /\ cache = cache_file.value

\* The request a step has just sent.
Sent == requests'[Len(requests')]

\* The cache after a step differs from the cache before it in nothing but
\* the entry under key k, which is e.
OnlyEntrySet(k, e) ==
  /\ cache'.type = "dict"
  /\ DOMAIN cache'.entries = DOMAIN cache.entries \cup {k}
  /\ cache'.entries[k] = e
  /\ \A o \in DOMAIN cache.entries \ {k} : cache'.entries[o] = cache.entries[o]

\* C3: when the exact lookup (address = city followed by company name)
\* succeeds, resolution ends at that step: the entry under the record's key
\* is created or overwritten with the returned coordinates, source exact and
\* the current time, success grows by exactly 1, the outcome has source exact
\* and those coordinates, and the only request ever made for a record with
\* source exact is that one: the city-only lookup is not issued.
C3_ExactIsTerminal ==
  /\ [][Step("exact") =>
          /\ Len(requests') = Len(requests) + 1
          /\ Sent.record = i + 1
          /\ Sent.address = company.city \o company.company_name
          /\ Sent.result.ok =>
               /\ pc' = "merge"
               /\ OnlyEntrySet(company_key,
                    [coords |-> NumList(Sent.result.coordinates),
                     timestamp |-> Iso(now),
                     source |-> "exact"])
               /\ success_count' = success_count + 1
               /\ geo_result'.geocode_source = "exact"
               /\ geo_result'.coordinates = NumList(Sent.result.coordinates)]_vars
  /\ [](\A k \in 1..Len(companies_with_coords) :
          companies_with_coords[k].geocode_source = "exact" =>
            /\ Len(RequestsFor(k)) = 1
            /\ RequestsFor(k)[1].result.ok
            /\ RequestsFor(k)[1].address =
                 companies[k].city \o companies[k].company_name)

\* C3 witness: an exact lookup has just overwritten the stale entry the
\* cache file held under the record's key.
C3_Witness ==
  /\ pc = "merge"
  /\ geo_result.geocode_source = "exact"
  /\ cache_file.kind = "json"
  /\ cache_file.value.type = "dict"
  /\ company_key \in DOMAIN cache_file.value.entries
  /\ cache_file.value.entries[company_key].timestamp.type = "iso"
  /\ cache.entries[company_key] # cache_file.value.entries[company_key]
  /\ Len(RequestsFor(i + 1)) = 1

\* C4: when the exact lookup failed and the city-only lookup succeeds, the
\* outcome has source city_fallback (never exact), the entry written under
\* the record's key has source city_fallback although the lookup client
\* returned the tag exact, and success grows by exactly 1.
C4_FallbackSource ==
  /\ [][Step("city_fallback") =>
          /\ Len(requests') = Len(requests) + 1
          /\ Sent.record = i + 1
          /\ Sent.address = company.city
          /\ Len(RequestsFor(i + 1)) = 1
          /\ ~RequestsFor(i + 1)[1].result.ok
          /\ Sent.result.ok =>
               /\ pc' = "merge"
               /\ Sent.result.source = "exact"
               /\ geo_result'.geocode_source = "city_fallback"
               /\ geo_result'.coordinates = NumList(Sent.result.coordinates)
               /\ OnlyEntrySet(company_key,
                    [coords |-> NumList(Sent.result.coordinates),
                     timestamp |-> Iso(now),
                     source |-> "city_fallback"])
               /\ success_count' = success_count + 1]_vars
  /\ [](\A k \in 1..Len(companies_with_coords) :
          (/\ Len(RequestsFor(k)) = 2
           /\ ~RequestsFor(k)[1].result.ok
           /\ RequestsFor(k)[2].result.ok) =>
            companies_with_coords[k].geocode_source = "city_fallback")

\* C4 witness: a record resolved by the city fallback after a failed exact
\* lookup, its cache entry tagged city_fallback.
C4_Witness ==
  /\ pc = "merge"
  /\ geo_result.geocode_source = "city_fallback"
  /\ Len(RequestsFor(i + 1)) = 2
  /\ ~RequestsFor(i + 1)[1].result.ok
  /\ RequestsFor(i + 1)[2].result.ok
  /\ cache.entries[company_key].source = "city_fallback"
  /\ success_count = 1

\* C5: when both lookups fail, neither failing lookup touches the cache or a
\* counter, and the failure step returns (coordinates null, source failed),
\* adds exactly 1 to error, appends exactly one line naming the company and
\* its city to the error log, and leaves success, cache_hit and every cache
\* entry as they were.
C5_BothFail ==
  /\ [][(Step("exact") \/ Step("city_fallback")) /\ ~Sent.result.ok =>
          /\ cache' = cache
          /\ counters' = counters
          /\ errors_log' = errors_log
          /\ pc' = IF pc = "exact" THEN "city_fallback" ELSE "failed"]_vars
  /\ [][Step("failed") =>
          /\ pc' = "merge"
          /\ geo_result'.coordinates = Null
          /\ geo_result'.geocode_source = "failed"
          /\ error_count' = error_count + 1
          /\ Len(errors_log') = Len(errors_log) + 1
          /\ SubSeq(errors_log', 1, Len(errors_log)) = errors_log
          /\ errors_log'[Len(errors_log')].company_name = company.company_name
          /\ errors_log'[Len(errors_log')].city = company.city
          /\ success_count' = success_count
          /\ cache_hit_count' = cache_hit_count
          /\ cache' = cache]_vars
  /\ [](pc = "failed" =>
          /\ Len(RequestsFor(i + 1)) = 2
          /\ \A n \in 1..2 : ~RequestsFor(i + 1)[n].result.ok)

\* C5 witness: a record whose two lookups failed, while the stale entry under
\* its key is still in the cache and a first failure is already logged.
C5_Witness ==
  /\ pc = "merge"
  /\ i = 1
  /\ geo_result.geocode_source = "failed"
  /\ geo_result.coordinates = Null
  /\ error_count = 2
  /\ Len(errors_log) = 2
  /\ HasEntry
  /\ cache = cache_file.value

\* The cache cannot resolve the record being processed: no entry under its
\* key, an entry with no or an unparseable timestamp, or an entry whose
\* timestamp is 91 days of 24 hours old or older.
NoUsableEntry ==
  /\ cache.type = "dict"
  /\ \/ ~HasEntry
     \/ cache.entries[company_key].timestamp.type \in {"missing", "garbled"}
     \/ /\ cache.entries[company_key].timestamp.type = "iso"
        /\ now - cache.entries[company_key].timestamp.at
             >= (CACHE_DAYS + 1) * HoursPerDay

\* The number of records resolved so far whose outcome has source src.
Resolved(src) ==
  Cardinality({k \in 1..Len(companies_with_coords) :
                 companies_with_coords[k].geocode_source = src})
  + (IF pc = "merge" /\ geo_result.geocode_source = src THEN 1 ELSE 0)

\* C6: a record resolved from the cache adds exactly 1 to cache_hit and
\* leaves success and error unchanged; a record the cache cannot resolve
\* (absent key, stale entry, missing or unparseable timestamp) goes on to the
\* exact lookup with cache_hit unchanged, and no later step of its resolution
\* changes cache_hit.
C6_CacheHitCounter ==
  /\ [][Step("cache_check") /\ pc' = "merge" =>
          /\ geo_result'.geocode_source = "cache"
          /\ cache_hit_count' = cache_hit_count + 1
          /\ success_count' = success_count
          /\ error_count' = error_count]_vars
  /\ [][Step("cache_check") /\ NoUsableEntry =>
          /\ pc' = "exact"
          /\ cache_hit_count' = cache_hit_count]_vars
  /\ [][Step("cache_check") /\ pc' = "exact" =>
          cache_hit_count' = cache_hit_count]_vars
  /\ [][pc \notin {"main", "cache_check"} =>
          cache_hit_count' = cache_hit_count]_vars
  /\ [](pc # "crashed" => cache_hit_count = Resolved("cache"))

\* C6 witness: the second record was resolved from the cache after the first
\* one, whose entry had no usable timestamp, was not.
C6_Witness ==
  /\ pc = "merge"
  /\ i = 1
  /\ geo_result.geocode_source = "cache"
  /\ companies_with_coords[1].geocode_source = "exact"
  /\ cache_file.kind = "json"
  /\ cache_file.value.type = "dict"
  /\ company_key \in DOMAIN cache_file.value.entries
  /\ cache_file.value.entries[company_key].timestamp.type = "garbled"
  /\ cache_hit_count = 1
  /\ success_count = 1
  /\ error_count = 0

\* C7 as stated: whenever two consecutive records name the same identity,
\* the second outcome has source cache and both carry the same coordinates.
C7_Idempotence_AsStated ==
  \A k \in 1..(Len(companies_with_coords) - 1) :
    companies[k] = companies[k + 1] =>
      /\ companies_with_coords[k + 1].geocode_source = "cache"
      /\ companies_with_coords[k + 1].coordinates =
           companies_with_coords[k].coordinates

\* C7 amended: when the record being processed names the same identity as
\* the record before it, that record's outcome is not failed, and no more
\* than 90 days of 24 hours have passed since that outcome's
\* geocode_timestamp, the cache check resolves the record with source cache
\* and the coordinates of the outcome before.
C7_Idempotence ==
  [][(/\ Step("cache_check")
      /\ i >= 1
      /\ companies[i] = companies[i + 1]
      /\ companies_with_coords[i].geocode_source # "failed"
      /\ now - companies_with_coords[i].geocode_timestamp.at
           <= CACHE_DAYS * HoursPerDay) =>
       /\ pc' = "merge"
       /\ geo_result'.geocode_source = "cache"
       /\ geo_result'.coordinates = companies_with_coords[i].coordinates]_vars

\* C7 witness: the same identity twice, resolved by a lookup and then from
\* the cache with the same coordinates.
C7_Witness ==
  /\ pc = "merge"
  /\ i = 1
  /\ companies[1] = companies[2]
  /\ companies_with_coords[1].geocode_source = "city_fallback"
  /\ geo_result.geocode_source = "cache"
  /\ geo_result.coordinates = companies_with_coords[1].coordinates

\* The entry under the key of the record being processed, when it has
\* coordinates and a parseable timestamp, and its age in hours.
DatedEntry ==
  /\ HasEntry
  /\ cache.entries[company_key].coords.type = "list"
  /\ cache.entries[company_key].timestamp.type = "iso"
EntryAge == now - cache.entries[company_key].timestamp.at

\* What get_cached_coordinates returns for the record being processed.
Lookup ==
  get_cached_coordinates(cache, cache_hit_count, company.company_name,
                         company.city, now)

\* C8, the expiry law: get_cached_coordinates returns nothing for an entry
\* whose timestamp is 91 days or more in the past, and returns the entry when
\* its timestamp is 89 days or less in the past; the cache check then goes on
\* to the exact lookup, respectively returns the cached outcome.
C8_ExpiryLaw ==
  /\ [](pc = "cache_check" /\ DatedEntry =>
          /\ EntryAge >= 91 * HoursPerDay => ~Lookup.found
          /\ (EntryAge >= 0 /\ EntryAge <= 89 * HoursPerDay) =>
               /\ Lookup.found
               /\ Lookup.data = cache.entries[company_key])
  /\ [][Step("cache_check") /\ DatedEntry =>
          /\ EntryAge >= 91 * HoursPerDay =>
               pc' = "exact" /\ geo_result' = geo_result
          /\ (EntryAge >= 0 /\ EntryAge <= 89 * HoursPerDay) =>
               /\ pc' = "merge"
               /\ geo_result'.geocode_source = "cache"
               /\ geo_result'.coordinates = cache.entries[company_key].coords]_vars

\* C8 witness: an entry exactly 91 days old was treated as a miss.
C8_Witness ==
  /\ pc = "exact"
  /\ i = 0
  /\ DatedEntry
  /\ EntryAge = 91 * HoursPerDay
  /\ cache_hit_count = 0

\* C9 as stated: with time in hours, an entry is a miss whenever its age
\* exceeds 90 x 24 hours and a hit only when its age does not exceed them.
C9_WindowInHours ==
  [][Step("cache_check") /\ DatedEntry =>
       IF EntryAge > CACHE_DAYS * HoursPerDay
       THEN pc' = "exact"
       ELSE pc' = "merge"]_vars

\* The entries the cache held under the keys in K are all in the cache after
\* the step, unchanged.
Kept(K) ==
  /\ cache'.type = "dict"
  /\ \A k \in K : k \in DOMAIN cache'.entries /\ cache'.entries[k] = cache.entries[k]

\* C10: no lookup deletes or alters a stale entry.  The cache check changes
\* no entry, failing lookups and the failure step change none, and an entry
\* is only ever replaced by a successful exact or city-only lookup for its own
\* key, which leaves under that key the new coordinates with the current
\* time, an entry get_cached_coordinates returns from then on; so a record
\* with a Failed outcome finds the entry of its key as it was.
C10_StaleEntryKept ==
  /\ [][pc # "main" /\ cache.type = "dict" =>
          IF (pc = "exact" \/ pc = "city_fallback") /\ pc' = "merge"
          THEN /\ Kept(DOMAIN cache.entries \ {company_key})
               /\ DOMAIN cache'.entries = DOMAIN cache.entries \cup {company_key}
               /\ cache'.entries[company_key].coords = geo_result'.coordinates
               /\ cache'.entries[company_key].coords = NumList(Sent.result.coordinates)
               /\ cache'.entries[company_key].timestamp = Iso(now)
               /\ \A t \in now..MaxTicks :
                    LET again == get_cached_coordinates(cache', 0,
                                   company.company_name, company.city, t)
                    IN again.found /\ again.data = cache'.entries[company_key]
          ELSE cache' = cache]_vars
  /\ [](pc = "merge" /\ i = 0 /\ geo_result.geocode_source = "failed" =>
          cache = load_cache(cache_file))

\* C10 witness: the stale entry of the cache file outlived a Failed outcome
\* for its key and was then replaced by a successful lookup for the same key.
C10_Witness ==
  /\ pc = "merge"
  /\ i = 1
  /\ companies[1] = companies[2]
  /\ companies_with_coords[1].geocode_source = "failed"
  /\ geo_result.geocode_source = "exact"
  /\ cache_file.kind = "json"
  /\ cache_file.value.type = "dict"
  /\ company_key \in DOMAIN cache_file.value.entries
  /\ cache_file.value.entries[company_key].timestamp.type = "iso"
  /\ cache.entries[company_key].coords = geo_result.coordinates
  /\ cache.entries[company_key].timestamp = Iso(now)

\* C11: two distinct identities whose keys city + "@" + company_name are the
\* same string share one cache entry: right after the first of them was
\* geocoded (exact or city-only), the second is resolved with no request,
\* from the cache, with the coordinates the first one got.
C11_KeyCollision ==
  /\ [](\A p, q \in Collisions :
          get_cache_key(p.company_name, p.city) = get_cache_key(q.company_name, q.city))
  /\ [][(/\ Step("cache_check")
          /\ i >= 1
          /\ companies[i] \in Collisions
          /\ company \in Collisions
          /\ companies[i] # company
          /\ companies_with_coords[i].geocode_source \in {"exact", "city_fallback"}
          /\ now - companies_with_coords[i].geocode_timestamp.at
               <= CACHE_DAYS * HoursPerDay)
        => /\ pc' = "merge"
           /\ requests' = requests
           /\ geo_result'.geocode_source = "cache"
           /\ geo_result'.coordinates = companies_with_coords[i].coordinates]_vars

\* The second of two colliding identities resolved from the entry the first
\* one's exact request wrote, the cache having been empty at the start.
C11_Witness ==
  /\ pc = "merge"
  /\ i = 1
  /\ companies[1] # companies[2]
  /\ companies \in [1..2 -> Collisions]
  /\ cache_file = FileMissing
  /\ companies_with_coords[1].geocode_source = "exact"
  /\ geo_result.geocode_source = "cache"
  /\ geo_result.coordinates = companies_with_coords[1].coordinates
  /\ Len(requests) = 1

\* The pauses of a run of n records, in order: after each record a long one
\* if its index counted from 1 is a multiple of the batch size, then a short
\* one.
LongAfter(k) == [after |-> k, tenths |-> LONG_PAUSE]
ShortAfter(k) == [after |-> k, tenths |-> SHORT_PAUSE]
RECURSIVE PausesAfter(_)
PausesAfter(n) ==
  IF n = 0
  THEN <<>>
  ELSE PausesAfter(n - 1)
         \o (IF n % batch_size = 0 THEN <<LongAfter(n)>> ELSE <<>>)
         \o <<ShortAfter(n)>>

\* C12: with batch size B >= 1 the run pauses briefly after every record and
\* long exactly after each record whose index counted from 1 is a multiple
\* of B, n short and n div B long pauses over n records; a record's long
\* pause comes after its resolution and before its short pause, and no pause
\* comes before the first record is resolved.
C12_Pacing ==
  /\ [](pc # "main" =>
          sleeps = PausesAfter(i)
                     \o (IF pc = "short_pause" /\ (i + 1) % batch_size = 0
                         THEN <<LongAfter(i + 1)>>
                         ELSE <<>>))
  /\ [](pc = "exit0" =>
          /\ Len(SelectSeq(sleeps, LAMBDA p : p.tenths = SHORT_PAUSE))
               = Len(companies)
          /\ Len(SelectSeq(sleeps, LAMBDA p : p.tenths = LONG_PAUSE))
               = Len(companies) \div batch_size)
  /\ [][sleeps' # sleeps =>
          /\ Len(companies_with_coords) = i + 1
          /\ companies_with_coords[i + 1].geocode_source
               \in {"cache", "exact", "city_fallback", "failed"}
          /\ sleeps'[Len(sleeps')].after = i + 1]_vars

\* Three records at batch size 2: one long pause, after the second record.
C12_Witness ==
  /\ pc = "exit0"
  /\ batch_size = 2
  /\ Len(companies) = 3
  /\ sleeps = <<ShortAfter(1), LongAfter(2), ShortAfter(2), ShortAfter(3)>>

\* Every input record has its outcome.
AllResolved ==
  /\ Len(companies_with_coords) = Len(companies)
  /\ \A k \in 1..Len(companies) :
       companies_with_coords[k].geocode_source
         \in {"cache", "exact", "city_fallback", "failed"}

\* C13: a run persists the cache once, and only after the last input record
\* is resolved; until then the cache file is as it was when the run started,
\* so a run stopped before all records are resolved leaves it unchanged.
C13_PersistOnce ==
  /\ saves <= 1
  /\ pc = "exit0" => saves = 1 /\ cache_file = FileJson(cache)
  /\ saves = 0 => cache_file = cache_file_at_start
  /\ saves = 1 => AllResolved /\ i = Len(companies)
  /\ (pc = "killed" /\ ~AllResolved) => cache_file = cache_file_at_start

\* A run stopped after the first of two records was geocoded: the entry is
\* in the geocoder's cache and not in the file.
C13_Witness ==
  /\ pc = "killed"
  /\ Len(companies) = 2
  /\ Len(companies_with_coords) = 1
  /\ companies_with_coords[1].geocode_source = "exact"
  /\ cache # load_cache(cache_file)
  /\ cache_file = cache_file_at_start
  /\ saves = 0

\* C14: the cache is persisted atomically: whenever the process is stopped,
\* also while save_cache is writing, the cache file holds the complete
\* mapping it held before the run or the complete mapping of the end of the
\* run, never an empty or partial file.
C14_AtomicPersist ==
  pc = "killed" =>
    \/ cache_file = cache_file_at_start
    \/ /\ AllResolved
       /\ cache_file = FileJson(cache)

\* C15: with no API credential main ends with the failure status before
\* anything else happens: no record is resolved, no request is sent, the
\* error log is not cleared, the cache is neither loaded nor persisted, and
\* no output is written.
C15_MissingCredential ==
  /\ [](api_key = "" =>
          /\ pc \in {"main", "exit1"}
          /\ companies = <<>>
          /\ companies_with_coords = <<>>
          /\ requests = <<>>
          /\ cache = EmptyCache
          /\ saves = 0
          /\ cache_file = cache_file_at_start
          /\ output_file = NoOutput)
  /\ [][api_key = "" =>
          /\ errors_log' = errors_log
          /\ pc = "main" => pc' = "exit1"]_vars

\* main ended for want of a credential, with records to process, entries in
\* the cache file and lines in the error log.
C15_Witness ==
  /\ pc = "exit1"
  /\ api_key = ""
  /\ Len(load_companies(input_file)) = 2
  /\ load_cache(cache_file) \notin {EmptyCache, NotADict}
  /\ errors_log # <<>>

\* main has loaded at least one record and constructed the Geocoder.
Started == pc = "cache_check" /\ i = 0 /\ companies_with_coords = <<>>

\* main returned 0 with every record resolved, the cache persisted and the
\* output written.
Completed ==
  /\ pc = "exit0"
  /\ AllResolved
  /\ cache_file = FileJson(cache)
  /\ output_file = [written |-> TRUE, records |-> companies_with_coords]

\* C16: with a credential and at least one input record, whatever requests
\* fail, the run goes on: it eventually resolves every input record,
\* persists the cache, writes the output and returns the success status.
C16_NoFailureAborts == Started ~> Completed

\* C17: when no input record is loaded (the input file missing or unreadable,
\* or an empty list) main ends with the failure status and the Geocoder is
\* never constructed: the cache is not loaded, no request is sent, and
\* neither the cache file nor the output file is written.
C17_NoRecords ==
  (/\ pc # "main"
   /\ api_key # ""
   /\ (~input_file.readable \/ input_file.records = <<>>))
  => /\ pc = "exit1"
     /\ companies = <<>>
     /\ companies_with_coords = <<>>
     /\ cache = EmptyCache
     /\ requests = <<>>
     /\ saves = 0
     /\ cache_file = cache_file_at_start
     /\ output_file = NoOutput

\* main ended on an empty input list, with a credential and with entries in
\* the cache file.
C17_Witness ==
  /\ pc = "exit1"
  /\ api_key # ""
  /\ input_file.readable
  /\ input_file.records = <<>>
  /\ load_cache(cache_file) \notin {EmptyCache, NotADict}

\* C18: a corrupt cache is never fatal: whatever the cache file holds
\* (nothing, text that is no JSON, JSON that is no mapping, a mapping with an
\* entry that lacks coords or timestamp), the run takes the unusable cache or
\* entry as absent and goes on; it never aborts.
C18_CorruptionNotFatal == pc # "crashed"

\* The step keeps every line of the error log and adds one line, for the
\* record being processed, exactly when it is the Failed terminal outcome.
LogAppendOnly ==
  IF Step("failed")
  THEN errors_log' =
         Append(errors_log, error_line(now, company.company_name, company.city))
  ELSE errors_log' = errors_log

\* C19 as stated: the error log is append-only over any sequence of runs: a
\* line once written (by this run or an earlier one) is never removed or
\* rewritten, and each Failed terminal outcome adds exactly one line
\* (timestamp, company_name, city).
C19_AppendOnly_AsStated == [][LogAppendOnly]_vars

\* C19: within a run the error log is append-only. main, when it has a
\* credential, starts by removing the log earlier runs left; from then on a
\* line once written is never removed or rewritten, and each Failed terminal
\* outcome adds exactly one line (timestamp, company_name, city).
C19_AppendOnlyWithinRun ==
  [][IF pc = "main"
     THEN errors_log' = (IF api_key = "" THEN errors_log ELSE <<>>)
     ELSE LogAppendOnly]_vars

\* Two records failed in one run: two lines, in the order of the records.
C19_Witness ==
  /\ pc = "merge"
  /\ i = 1
  /\ geo_result.geocode_source = "failed"
  /\ companies_with_coords[1].geocode_source = "failed"
  /\ Len(errors_log) = 2
  /\ errors_log[1] = error_line(companies_with_coords[1].geocode_timestamp.at,
                                companies[1].company_name, companies[1].city)
  /\ cache_file_at_start = FileMissing

\* C20: a record costs at most two requests, none on a cache hit, one when
\* the exact request succeeds and two otherwise, and no request is repeated:
\* for every identity, the one with an empty company name included, the
\* address of the second request (the city) differs from the address of the
\* first (the city followed by the company name).
C20_NoRepeatedRequest ==
  \A k \in 1..Len(companies) :
    LET sent == RequestsFor(k)
    IN /\ Len(sent) <= 2
       /\ Len(sent) = 2 => sent[1].address # sent[2].address
       /\ k <= Len(companies_with_coords) =>
            Len(sent) = (CASE companies_with_coords[k].geocode_source = "cache" -> 0
                           [] companies_with_coords[k].geocode_source = "exact" -> 1
                           [] OTHER -> 2)

\* The outcomes geocode_company has returned so far.
Outcomes ==
  {companies_with_coords[k] : k \in 1..Len(companies_with_coords)}
    \cup (IF pc = "merge" THEN {geo_result} ELSE {})

\* C21: in every outcome of geocode_company, whatever the provider answers
\* and whatever the loaded cache holds, coordinates is null or a list of
\* exactly two numbers, and it is null exactly when the source is failed.
C21_CoordinatesShape ==
  \A o \in Outcomes :
    /\ \/ o.coordinates = Null
       \/ o.coordinates.type = "list" /\ Len(o.coordinates.elems) = 2
    /\ o.coordinates = Null <=> o.geocode_source = "failed"

\* The counter an outcome of the given source belongs to, as the triple
\* <<error, success, cache_hit>> with 1 at its place.
CounterOf(source) ==
  CASE source = "failed" -> <<1, 0, 0>>
    [] source \in {"exact", "city_fallback"} -> <<0, 1, 0>>
    [] source = "cache" -> <<0, 0, 1>>

\* C22: the counters are 0 when the Geocoder is constructed; after each
\* record is resolved success + cache_hit + error is the number of records
\* resolved so far; and each record adds exactly 1 to exactly one counter,
\* the one of its outcome's source: cache to cache_hit, exact and
\* city_fallback to success, failed to error.
C22_Counters ==
  /\ [][(pc = "main" /\ pc' = "cache_check") =>
          error_count' = 0 /\ success_count' = 0 /\ cache_hit_count' = 0]_vars
  /\ [](pc \notin {"main", "exit1", "crashed"} =>
          success_count + cache_hit_count + error_count
            = Len(companies_with_coords) + (IF pc = "merge" THEN 1 ELSE 0))
  /\ [][(pc # "merge" /\ pc' = "merge") =>
          LET one == CounterOf(geo_result'.geocode_source)
          IN /\ error_count' = error_count + one[1]
             /\ success_count' = success_count + one[2]
             /\ cache_hit_count' = cache_hit_count + one[3]]_vars
  /\ [][(pc # "main" /\ pc' \notin {"merge", "crashed"}) =>
          UNCHANGED counters]_vars

\* A finished run of two records, one from the cache and one failed.
C22_Witness ==
  /\ pc = "exit0"
  /\ Len(companies) = 2
  /\ companies_with_coords[1].geocode_source = "cache"
  /\ companies_with_coords[2].geocode_source = "failed"
  /\ cache_hit_count = 1
  /\ error_count = 1
  /\ success_count = 0

\* The enriched records stage (c) was given, and those among them whose
\* coordinates is a list of two elements.
Enriched == IF output_file.written THEN output_file.records ELSE <<>>
WithPair ==
  SelectSeq(Enriched,
            LAMBDA r : r.coordinates.type = "list" /\ Len(r.coordinates.elems) = 2)

\* C23: stage (c) keeps exactly the enriched records whose coordinates is a
\* list of two elements, one Feature each in the order of the input, and
\* drops every record with null coordinates; so when every record of a
\* finished geocoding run is failed the feature list is empty,
\* validate_geojson rejects it, and the stage ends with the failure status
\* and writes no output.
C23_FeaturesKept ==
  (geojson_status # "idle" /\ Enriched # <<>>) =>
    /\ geojson_collection.type = "FeatureCollection"
    /\ Len(geojson_collection.features) = Len(WithPair)
    /\ \A k \in 1..Len(WithPair) :
         LET feature == geojson_collection.features[k]
         IN /\ feature.type = "Feature"
            /\ feature.geometry.coordinates = WithPair[k].coordinates
            /\ feature.properties.name = WithPair[k].company_name
            /\ feature.properties.city = WithPair[k].city
    /\ (\A k \in 1..Len(Enriched) : Enriched[k].geocode_source = "failed") =>
         /\ \A k \in 1..Len(Enriched) : Enriched[k].coordinates = Null
         /\ geojson_collection.features = <<>>
         /\ ~validate_geojson(geojson_collection)
         /\ geojson_status = "exit1"
         /\ geojson_file = NoGeoJson
    /\ geojson_status = "exit0" =>
         geojson_file = [written |-> TRUE, data |-> geojson_collection]

\* Stage (c) after a finished run of two records that both failed.
C23_Witness ==
  /\ pc = "exit0"
  /\ Len(Enriched) = 2
  /\ \A k \in 1..2 : Enriched[k].geocode_source = "failed"
  /\ geojson_status = "exit1"
  /\ geojson_collection = create_geojson_collection(Enriched)
  /\ geojson_file = NoGeoJson

====
